---- MODULE Spec2Model ----
(***************************************************************************)
(* A model of bart/api.py: the BartApi client.  Python strings that the    *)
(* code slices, lower-cases or searches are sequences of one-character     *)
(* strings; Python values of varying type are tagged records.  Every       *)
(* method is an operator computing what the method does (the requests it   *)
(* issues, what it prints, and whether it returns or raises), and every    *)
(* method has an action that invokes it on inputs drawn from small sets.   *)
(***************************************************************************)
EXTENDS Integers, Sequences, FiniteSets, TLC

VARIABLES api_key, pc, call, sent, printed, outcome

vars == <<api_key, pc, call, sent, printed, outcome>>

(***************************************************************************)
(* Bounds of the model.                                                    *)
(***************************************************************************)
\* how many entries of the station table the model carries
NStations == 2
\* integer arguments are drawn from -1 .. MaxInt
MaxInt == 5

(***************************************************************************)
(* Python values.                                                          *)
(***************************************************************************)
NoneV == [t |-> "none"]
PyStr(s) == [t |-> "str", v |-> s]
PyInt(n) == [t |-> "int", v |-> n]
PyDict(d) == [t |-> "dict", v |-> d]

IsNone(x) == x.t = "none"
IsStr(x) == x.t = "str"
IsInt(x) == x.t = "int"
IsDict(x) == x.t = "dict"

\* Python truth value of an object
Truthy(x) ==
    CASE x.t = "none" -> FALSE
      [] x.t = "str" -> Len(x.v) > 0
      [] x.t = "int" -> x.v # 0
      [] x.t = "dict" -> DOMAIN x.v # {}
      [] OTHER -> TRUE

\* a == b of Python, for the values of the model
PyEq(a, b) ==
    /\ a.t = b.t
    /\ CASE a.t = "none" -> TRUE
         [] a.t = "str" -> a.v = b.v
         [] a.t = "int" -> a.v = b.v
         [] OTHER -> a = b

(***************************************************************************)
(* Outcomes of a call: a validator passes (Ok) or raises; a method returns *)
(* a value or raises.                                                      *)
(***************************************************************************)
Ok == [kind |-> "ok"]
Raise(exc, fmt, arg) == [kind |-> "raise", exc |-> exc, fmt |-> fmt, arg |-> arg]
Return(v) == [kind |-> "return", value |-> v]

Raised(o) == o.kind = "raise"

(***************************************************************************)
(* Strings.                                                                *)
(***************************************************************************)
UpperChars == <<"A","B","C","D","E","F","G","H","I","J","K","L","M",
                "N","O","P","Q","R","S","T","U","V","W","X","Y","Z">>
LowerChars == <<"a","b","c","d","e","f","g","h","i","j","k","l","m",
                "n","o","p","q","r","s","t","u","v","w","x","y","z">>
Digits == <<"0","1","2","3","4","5","6","7","8","9">>

IsDigit(c) == \E i \in DOMAIN Digits : Digits[i] = c
DigitVal(c) == (CHOOSE i \in DOMAIN Digits : Digits[i] = c) - 1

lowerChar(c) ==
    IF \E i \in DOMAIN UpperChars : UpperChars[i] = c
    THEN LowerChars[CHOOSE i \in DOMAIN UpperChars : UpperChars[i] = c]
    ELSE c

upperChar(c) ==
    IF \E i \in DOMAIN LowerChars : LowerChars[i] = c
    THEN UpperChars[CHOOSE i \in DOMAIN LowerChars : LowerChars[i] = c]
    ELSE c

\* str.lower()
lower(s) == [i \in 1..Len(s) |-> lowerChar(s[i])]

\* s[a:b] for 0 <= a <= b
Slice(s, a, b) ==
    LET lo == IF a > Len(s) THEN Len(s) ELSE a
        hi == IF b > Len(s) THEN Len(s) ELSE b
    IN IF hi <= lo THEN <<>> ELSE SubSeq(s, lo + 1, hi)

\* s[a:]
SliceFrom(s, a) == Slice(s, a, Len(s))

\* `s in t` for two strings: s occurs in t as a substring
InString(s, t) ==
    \E i \in 0..(Len(t) - Len(s)) : Slice(t, i, i + Len(s)) = s

\* the strings that differ from s only in letter case
CaseVariants(s) ==
    {v \in [1..Len(s) -> {lowerChar(s[i]) : i \in 1..Len(s)}
                          \cup {upperChar(s[i]) : i \in 1..Len(s)}] :
        \A i \in 1..Len(s) : lowerChar(v[i]) = lowerChar(s[i])}

\* str.strip() of blanks
RECURSIVE lstrip(_)
lstrip(s) == IF Len(s) > 0 /\ s[1] = " " THEN lstrip(Tail(s)) ELSE s
RECURSIVE rstrip(_)
rstrip(s) == IF Len(s) > 0 /\ s[Len(s)] = " " THEN rstrip(SubSeq(s, 1, Len(s) - 1)) ELSE s
strip(s) == rstrip(lstrip(s))

AllDigits(s) == Len(s) > 0 /\ \A i \in 1..Len(s) : IsDigit(s[i])

\* int(s) of a string succeeds: blanks, an optional sign, decimal digits
IntParses(s) ==
    LET b == strip(s)
    IN IF Len(b) > 0 /\ b[1] \in {"+", "-"} THEN AllDigits(Tail(b)) ELSE AllDigits(b)

\* the value of a string of decimal digits
RECURSIVE DecVal(_)
DecVal(s) == IF Len(s) = 0 THEN 0 ELSE 10 * DecVal(SubSeq(s, 1, Len(s) - 1)) + DigitVal(s[Len(s)])

(***************************************************************************)
(* constants.py: the station and route tables.  The module is imported at  *)
(* api.py:7; the tables are reference data keyed by lower-case station     *)
(* codes, of which the model carries the first NStations.                  *)
(***************************************************************************)
StationTable == << <<"a","s","h","b">>, <<"1","2","t","h">>, <<"m","c","a","r">> >>
stations_keys == {StationTable[i] : i \in 1..NStations}
routes == {PyInt(n) : n \in 1..12}

all_lower == <<"a","l","l">>
ALL_upper == <<"A","L","L">>
today == <<"t","o","d","a","y">>
now == <<"n","o","w">>

(***************************************************************************)
(* datetime.datetime.strptime, for the two formats the code uses.  The     *)
(* format's directives are regular expressions matched from the start of   *)
(* the string; the literal after each numeric directive fixes where the    *)
(* directive ends, and the whole string must be consumed.                  *)
(***************************************************************************)
\* %H: 2[0-3]|[0-1]\d|\d
MatchH(s) ==
    \/ Len(s) = 2 /\ s[1] = "2" /\ s[2] \in {"0","1","2","3"}
    \/ Len(s) = 2 /\ s[1] \in {"0","1"} /\ IsDigit(s[2])
    \/ Len(s) = 1 /\ IsDigit(s[1])

\* %M: [0-5]\d|\d
MatchM(s) ==
    \/ Len(s) = 2 /\ s[1] \in {"0","1","2","3","4","5"} /\ IsDigit(s[2])
    \/ Len(s) = 1 /\ IsDigit(s[1])

\* %p: am|pm, ignoring case
MatchP(s) == lower(s) \in {<<"a","m">>, <<"p","m">>}

\* %m: 1[0-2]|0[1-9]|[1-9]
MatchMonth(s) ==
    \/ Len(s) = 2 /\ s[1] = "1" /\ s[2] \in {"0","1","2"}
    \/ Len(s) = 2 /\ s[1] = "0" /\ IsDigit(s[2]) /\ s[2] # "0"
    \/ Len(s) = 1 /\ IsDigit(s[1]) /\ s[1] # "0"

\* %d: 3[0-1]|[1-2]\d|0[1-9]|[1-9]| [1-9]
MatchDay(s) ==
    \/ Len(s) = 2 /\ s[1] = "3" /\ s[2] \in {"0","1"}
    \/ Len(s) = 2 /\ s[1] \in {"1","2"} /\ IsDigit(s[2])
    \/ Len(s) = 2 /\ s[1] \in {"0"," "} /\ IsDigit(s[2]) /\ s[2] # "0"
    \/ Len(s) = 1 /\ IsDigit(s[1]) /\ s[1] # "0"

\* %Y: \d\d\d\d
MatchYear(s) == Len(s) = 4 /\ \A i \in 1..4 : IsDigit(s[i])

IsLeap(y) == y % 4 = 0 /\ (y % 100 # 0 \/ y % 400 = 0)
DaysInMonth(y, m) ==
    IF m = 2 THEN (IF IsLeap(y) THEN 29 ELSE 28)
    ELSE IF m \in {4, 6, 9, 11} THEN 30 ELSE 31

\* datetime.datetime.strptime(time, '%H:%M+%p') returns
strptime_time(s) ==
    \E i \in 1..Len(s), j \in 1..Len(s) :
        /\ i < j
        /\ s[i] = ":" /\ s[j] = "+"
        /\ MatchH(Slice(s, 0, i - 1))
        /\ MatchM(Slice(s, i, j - 1))
        /\ MatchP(SliceFrom(s, j))

\* datetime.datetime.strptime(date, '%m/%d/%Y') returns
strptime_date(s) ==
    \E i \in 1..Len(s), j \in 1..Len(s) :
        /\ i < j
        /\ s[i] = "/" /\ s[j] = "/"
        /\ MatchMonth(Slice(s, 0, i - 1))
        /\ MatchDay(Slice(s, i, j - 1))
        /\ MatchYear(SliceFrom(s, j))
        /\ LET y == DecVal(SliceFrom(s, j))
               m == DecVal(Slice(s, 0, i - 1))
               d == DecVal(strip(Slice(s, i, j - 1)))
           IN y >= 1 /\ d <= DaysInMonth(y, m)

(***************************************************************************)
(* Param Checking                                                          *)
(***************************************************************************)
\* check_station comparing the argument as given, not its lower-case form
check_station_as_given(orig) ==
    IF ~IsStr(orig) THEN Raise("AttributeError", "lower", orig)
    ELSE IF orig.v \notin (stations_keys \cup {all_lower})
         THEN Raise("Exception", "Station '{}' not recognized", orig)
         ELSE Ok

check_station(orig) ==
    IF ~IsStr(orig) THEN Raise("AttributeError", "lower", orig)
    ELSE IF lower(orig.v) \notin (stations_keys \cup {all_lower})
         THEN Raise("Exception", "Station '{}' not recognized", orig)
         ELSE Ok

check_platform(platform) ==
    IF ~(IsInt(platform) /\ platform.v \in 1..4)
    THEN Raise("Exception", "Platform '{}' not recognized", platform)
    ELSE Ok

check_direction(direction) ==
    IF ~IsStr(direction) THEN Raise("TypeError", "in <string>", direction)
    ELSE IF ~InString(direction.v, <<"n","s">>)
         THEN Raise("Exception", "Direction '{}' not recognized", direction)
         ELSE Ok

check_route(route) ==
    IF ~(\E r \in routes \cup {PyStr(all_lower), PyStr(ALL_upper)} : PyEq(route, r))
    THEN Raise("Exception", "Route '{}' not recognized", route)
    ELSE Ok

check_time(time) ==
    IF \E l \in {PyStr(today), PyStr(now)} : PyEq(time, l) THEN Ok
    ELSE IF IsStr(time) /\ strptime_time(time.v) THEN Ok
         ELSE Raise("Exception", "Time '{}' not recognized", time)

check_date(date) ==
    IF \E l \in {PyStr(today), PyStr(now)} : PyEq(date, l) THEN Ok
    ELSE IF IsStr(date) /\ strptime_date(date.v) THEN Ok
         ELSE Raise("Exception", "Date '{}' not recognized", date)

check_trips(num_trips) ==
    IF ~(IsInt(num_trips) /\ num_trips.v \in 0..4)
    THEN Raise("Exception", "Number of given trips, {}, not valid", num_trips)
    ELSE Ok

check_legend(legend) ==
    IF ~(\E l \in {PyInt(0), PyInt(1)} : PyEq(legend, l))
    THEN Raise("Exception", "Legend value '{}' invalid", legend)
    ELSE Ok

check_load(train) ==
    IF ~IsStr(train) THEN Raise("TypeError", "not subscriptable", train)
    ELSE LET station == Slice(train.v, 0, 4)
             route == Slice(train.v, 4, 6)
             train_id == SliceFrom(train.v, 6)
         IN IF station \notin stations_keys
            THEN Raise("Exception", "Station '{}' not recognized", PyStr(station))
            ELSE IF ~IntParses(route)
                 THEN Raise("Exception", "Route '{}' not recognized", PyStr(route))
                 ELSE IF ~IntParses(train_id)
                      THEN Raise("Exception", "Train ID '{}' not recognized", PyStr(train_id))
                      ELSE Ok

check_schedule_type(st) ==
    IF ~IsStr(st) THEN Raise("AttributeError", "lower", st)
    ELSE IF ~InString(lower(st.v), <<"w","s","h">>)
         THEN Raise("Exception", "Station type '{}' not recognized", st)
         ELSE Ok

(***************************************************************************)
(* What a method does: the HTTP requests it issued, what it printed, and   *)
(* how it ended.                                                           *)
(***************************************************************************)
Eff(s, p, o) == [sent |-> s, printed |-> p, out |-> o]

\* x[k] of Python for a string key k
GetItem(x, k) ==
    IF IsDict(x)
    THEN IF k \in DOMAIN x.v THEN Return(x.v[k]) ELSE Raise("KeyError", "{}", k)
    ELSE Raise("TypeError", "not subscriptable", k)

\* r[k] applied to the value a call returned; a call that raised stays raised
Index(r, k) ==
    IF Raised(r.out) THEN r ELSE Eff(r.sent, r.printed, GetItem(r.out.value, k))

\* str.split(sep) for a non-empty separator
RECURSIVE Split(_, _)
Split(s, sep) ==
    IF InString(sep, s)
    THEN LET i == CHOOSE i \in 0..(Len(s) - Len(sep)) :
                     /\ Slice(s, i, i + Len(sep)) = sep
                     /\ \A j \in 0..(i - 1) : Slice(s, j, j + Len(sep)) # sep
         IN <<Slice(s, 0, i)>> \o Split(SliceFrom(s, i + Len(sep)), sep)
    ELSE <<s>>

(***************************************************************************)
(* Utilities                                                               *)
(***************************************************************************)
\* 'http://api.bart.gov/api/': the path '/api/' ends in an empty segment
BART_URI == [scheme |-> "http", netloc |-> "api.bart.gov", path |-> <<"api", "">>]
BART_ENDPOINTS == <<"bsa", "etd", "route", "sched", "stn">>

\* urlparse.urljoin(base, ref) for a reference that is one relative path
\* segment: the reference replaces the last segment of the base's path
urljoin(base, ref) ==
    [base EXCEPT !.path = SubSeq(base.path, 1, Len(base.path) - 1) \o <<ref>>]

\* _get_api_endpoint without the membership test
_get_api_endpoint_unchecked(endpoint) ==
    Return(urljoin(BART_URI, endpoint \o ".aspx"))

_get_api_endpoint(endpoint) ==
    IF \E i \in DOMAIN BART_ENDPOINTS : BART_ENDPOINTS[i] = endpoint
    THEN Return(urljoin(BART_URI, endpoint \o ".aspx"))
    ELSE Raise("Exception", "Endpoint '{}' does not exist", endpoint)

\* resp.raise_for_status() of the requests library raises HTTPError for a
\* status in 400..599 and returns for every other status
raise_for_status(resp) ==
    IF resp.status >= 400 /\ resp.status < 600
    THEN Raise("HTTPError", "{}", resp.status)
    ELSE Ok

\* xmltodict.parse(resp.content)['root']
parse_root(resp) ==
    IF ~resp.body.wf THEN Raise("ExpatError", "{}", "content")
    ELSE IF resp.body.tag # "root" THEN Raise("KeyError", "{}", "root")
         ELSE Return(resp.body.root)

\* a pop that removes nothing
Without_nothing(d, k) == d

\* a mapping without one of its keys
Without(d, k) == [x \in DOMAIN d \ {k} |-> d[x]]

\* call_api raising the error note instead of printing it
unwrap_raising(req, root) ==
    IF "uri" \notin DOMAIN root THEN Eff(<<req>>, <<>>, Raise("KeyError", "{}", "uri"))
    ELSE LET out == Without(root, "uri")
         IN IF "message" \notin DOMAIN out
            THEN Eff(<<req>>, <<>>, Raise("KeyError", "{}", "message"))
            ELSE IF ~Truthy(out["message"])
                 THEN Eff(<<req>>, <<>>, Return(PyDict(out)))
                 ELSE IF ~IsDict(out["message"])
                      THEN Eff(<<req>>, <<>>, Raise("AttributeError", "{}", "get"))
                      ELSE LET error == IF "error" \in DOMAIN out["message"].v
                                        THEN out["message"].v["error"]
                                        ELSE NoneV
                           IN IF Truthy(error)
                              THEN Eff(<<req>>, <<>>, Raise("Exception", "{}", error))
                              ELSE Eff(<<req>>, <<>>, Return(PyDict(out)))

\* the rest of call_api once the root mapping is decoded (lines 36-41)
unwrap(req, root) ==
    IF "uri" \notin DOMAIN root THEN Eff(<<req>>, <<>>, Raise("KeyError", "{}", "uri"))
    ELSE LET out == Without(root, "uri")
         IN IF "message" \notin DOMAIN out
            THEN Eff(<<req>>, <<>>, Raise("KeyError", "{}", "message"))
            ELSE IF ~Truthy(out["message"])
                 THEN Eff(<<req>>, <<>>, Return(PyDict(out)))
                 ELSE IF ~IsDict(out["message"])
                      THEN Eff(<<req>>, <<>>, Raise("AttributeError", "{}", "get"))
                      ELSE LET error == IF "error" \in DOMAIN out["message"].v
                                        THEN out["message"].v["error"]
                                        ELSE NoneV
                           IN IF Truthy(error)
                              THEN Eff(<<req>>, <<error>>, Return(PyDict(out)))
                              ELSE Eff(<<req>>, <<>>, Return(PyDict(out)))

\* call_api(endpoint, cmd, **kwargs), answered by the response resp
call_api(endpoint, cmd, kwargs, resp) ==
    LET payload == kwargs @@ ("cmd" :> cmd @@ "key" :> api_key)
        uri == _get_api_endpoint(endpoint)
    IN IF Raised(uri) THEN Eff(<<>>, <<>>, uri)
       ELSE LET req == [uri |-> uri.value, params |-> payload]
            IN IF resp.status # 200 /\ Raised(raise_for_status(resp))
               THEN Eff(<<req>>, <<>>, raise_for_status(resp))
               ELSE IF Raised(parse_root(resp))
                    THEN Eff(<<req>>, <<>>, parse_root(resp))
                    ELSE unwrap(req, parse_root(resp).value)

NoArgs == <<>>

\* all applied to the list of its arguments, as all([ld1, ld2, ld3]) would be
py_all_of_list(args) == Return(\A i \in DOMAIN args : Truthy(args[i]))

\* all(*args) of Python: the builtin takes exactly one argument, an iterable
py_all(args) ==
    IF Len(args) # 1
    THEN Raise("TypeError", "all() takes exactly one argument ({} given)", Len(args))
    ELSE IF IsStr(args[1]) THEN Return(TRUE)
         ELSE Raise("TypeError", "object is not iterable", args[1])

\* a validator that raised ends the method before any request
Rejected(v) == Eff(<<>>, <<>>, v)

(***************************************************************************)
(* Common API Calls                                                        *)
(***************************************************************************)
get_api_commands(endpoint, resp) ==
    IF ~(\E i \in DOMAIN BART_ENDPOINTS : BART_ENDPOINTS[i] = endpoint)
    THEN Rejected(Raise("Exception", "Endpoint '{}' does not exist", endpoint))
    ELSE LET r == Index(Index(call_api(endpoint, "help", NoArgs, resp), "message"), "help")
         IN IF Raised(r.out) THEN r
            ELSE IF ~IsStr(r.out.value)
                 THEN Eff(r.sent, r.printed, Raise("AttributeError", "{}", "split"))
                 ELSE LET parts == Split(r.out.value.v, <<":", " ">>)
                      IN IF Len(parts) < 2
                         THEN Eff(r.sent, r.printed, Raise("IndexError", "{}", "1"))
                         ELSE Eff(r.sent, r.printed,
                                  Return([t |-> "list", v |-> Split(parts[2], <<",", " ">>)]))

get_api_version(endpoint, resp) == call_api(endpoint, "ver", NoArgs, resp)

(***************************************************************************)
(* Advisory Information API                                                *)
(***************************************************************************)
get_current_advisory(orig, resp) ==
    IF Raised(check_station(orig)) THEN Rejected(check_station(orig))
    ELSE Index(call_api("bsa", "bsa", "orig" :> orig, resp), "bsa")

get_number_of_trains(resp) == Index(call_api("bsa", "count", NoArgs, resp), "traincount")

get_elevator_status(resp) == Index(call_api("bsa", "elev", NoArgs, resp), "bsa")

(***************************************************************************)
(* Real-Time Information API                                               *)
(***************************************************************************)
\* get_estimated_departure testing dir before plat
get_estimated_departure_dir_first(orig, plat, dir, resp) ==
    IF Raised(check_station(orig)) THEN Rejected(check_station(orig))
    ELSE IF PyEq(orig, PyStr(all_lower))
         THEN call_api("etd", "etd", "orig" :> orig, resp)
         ELSE IF Truthy(dir)
              THEN IF Raised(check_direction(dir)) THEN Rejected(check_direction(dir))
                   ELSE call_api("etd", "etd", "orig" :> orig @@ "dir" :> dir, resp)
              ELSE IF Truthy(plat)
                   THEN IF Raised(check_platform(plat)) THEN Rejected(check_platform(plat))
                        ELSE call_api("etd", "etd", "orig" :> orig @@ "plat" :> plat, resp)
                   ELSE Eff(<<>>, <<>>, Return(NoneV))

get_estimated_departure(orig, plat, dir, resp) ==
    IF Raised(check_station(orig)) THEN Rejected(check_station(orig))
    ELSE IF PyEq(orig, PyStr(all_lower))
         THEN call_api("etd", "etd", "orig" :> orig, resp)
         ELSE IF Truthy(plat)
              THEN IF Raised(check_platform(plat)) THEN Rejected(check_platform(plat))
                   ELSE call_api("etd", "etd", "orig" :> orig @@ "plat" :> plat, resp)
              ELSE IF Truthy(dir)
                   THEN IF Raised(check_direction(dir)) THEN Rejected(check_direction(dir))
                        ELSE call_api("etd", "etd", "orig" :> orig @@ "dir" :> dir, resp)
                   ELSE Eff(<<>>, <<>>, Return(NoneV))

(***************************************************************************)
(* Route Information API                                                   *)
(***************************************************************************)
get_route_information(route, sched, date, resp) ==
    IF Raised(check_route(route)) THEN Rejected(check_route(route))
    ELSE IF Raised(check_date(date)) THEN Rejected(check_date(date))
    ELSE IF ~Truthy(sched)
         THEN call_api("route", "routeinfo", "route" :> route @@ "date" :> date, resp)
         ELSE call_api("route", "routeinfo",
                       "route" :> route @@ "sched" :> sched @@ "date" :> date, resp)

get_route_current_information(sched, date, resp) ==
    IF Raised(check_date(date)) THEN Rejected(check_date(date))
    ELSE IF ~Truthy(sched)
         THEN call_api("route", "routes", "date" :> date, resp)
         ELSE call_api("route", "routes", "sched" :> sched @@ "date" :> date, resp)

(***************************************************************************)
(* Schedule Information API                                                *)
(***************************************************************************)
\* the seven checks that begin get_schedule_by_arrival and
\* get_schedule_by_departure, in the order of the code: the first that
\* raises, or Ok
check_trip_plan(orig, dest, time, date, trips_before, trips_after, legend) ==
    IF Raised(check_station(orig)) THEN check_station(orig)
    ELSE IF Raised(check_station(dest)) THEN check_station(dest)
    ELSE IF Raised(check_time(time)) THEN check_time(time)
    ELSE IF Raised(check_date(date)) THEN check_date(date)
    ELSE IF Raised(check_trips(trips_before)) THEN check_trips(trips_before)
    ELSE IF Raised(check_trips(trips_after)) THEN check_trips(trips_after)
    ELSE check_legend(legend)

trip_plan_params(orig, dest, time, date, trips_before, trips_after, legend) ==
    "orig" :> orig @@ "dest" :> dest @@ "time" :> time @@ "date" :> date
    @@ "b" :> trips_before @@ "a" :> trips_after @@ "l" :> legend

get_schedule_by_arrival(orig, dest, time, date, trips_before, trips_after, legend, resp) ==
    LET c == check_trip_plan(orig, dest, time, date, trips_before, trips_after, legend)
    IN IF Raised(c) THEN Rejected(c)
       ELSE call_api("sched", "arrive",
                     trip_plan_params(orig, dest, time, date, trips_before, trips_after, legend),
                     resp)

get_schedule_by_departure(orig, dest, time, date, trips_before, trips_after, legend, resp) ==
    LET c == check_trip_plan(orig, dest, time, date, trips_before, trips_after, legend)
    IN IF Raised(c) THEN Rejected(c)
       ELSE call_api("sched", "depart",
                     trip_plan_params(orig, dest, time, date, trips_before, trips_after, legend),
                     resp)

get_schedule_fare(orig, dest, date, sched, resp) ==
    IF Raised(check_station(orig)) THEN Rejected(check_station(orig))
    ELSE IF Raised(check_station(dest)) THEN Rejected(check_station(dest))
    ELSE IF Raised(check_date(date)) THEN Rejected(check_date(date))
    ELSE IF Truthy(sched)
         THEN call_api("sched", "fare",
                       "orig" :> orig @@ "dest" :> dest @@ "date" :> date @@ "sched" :> sched,
                       resp)
         ELSE call_api("sched", "fare", "orig" :> orig @@ "dest" :> dest @@ "date" :> date, resp)

get_schedule_for_holiday(resp) == call_api("sched", "holiday", NoArgs, resp)

get_schedule_load_factor(ld1, ld2, ld3, st, resp) ==
    IF Raised(check_load(ld1)) THEN Rejected(check_load(ld1))
    ELSE IF Truthy(ld2) /\ Raised(check_load(ld2)) THEN Rejected(check_load(ld2))
    ELSE IF Truthy(ld3) /\ Raised(check_load(ld3)) THEN Rejected(check_load(ld3))
    ELSE IF Raised(check_schedule_type(st)) THEN Rejected(check_schedule_type(st))
    ELSE IF Raised(py_all(<<ld1, ld2, ld3>>)) THEN Rejected(py_all(<<ld1, ld2, ld3>>))
    ELSE IF py_all(<<ld1, ld2, ld3>>).value
         THEN call_api("sched", "load",
                       "ld1" :> ld1 @@ "ld2" :> ld2 @@ "ld3" :> ld3 @@ "st" :> st, resp)
         ELSE IF Raised(py_all(<<ld1, ld2>>)) THEN Rejected(py_all(<<ld1, ld2>>))
         ELSE IF py_all(<<ld1, ld2>>).value
              THEN call_api("sched", "load", "ld1" :> ld1 @@ "ld2" :> ld2 @@ "st" :> st, resp)
              ELSE call_api("sched", "load", "ld1" :> ld1 @@ "st" :> st, resp)

get_schedule_by_route(resp) == call_api("sched", "routesched", NoArgs, resp)

get_schedule(resp) == call_api("sched", "scheds", NoArgs, resp)

get_schedule_special(resp) == call_api("sched", "special", NoArgs, resp)

get_schedule_station(resp) == call_api("sched", "stnsched", NoArgs, resp)

(***************************************************************************)
(* Station Information API                                                 *)
(***************************************************************************)
\* get_station_access looking the legend up whatever the flag
get_station_access_always_legend(orig, legend, resp) ==
    IF Raised(check_station(orig)) THEN Rejected(check_station(orig))
    ELSE IF Raised(check_legend(legend)) THEN Rejected(check_legend(legend))
    ELSE LET out == call_api("stn", "stnaccess", "orig" :> orig @@ "l" :> legend, resp)
             st == Index(out, "stations")
         IN IF Raised(st.out) THEN st
            ELSE LET lg == Index(Index(out, "message"), "legend")
                 IN IF Raised(lg.out) THEN lg
                    ELSE Eff(out.sent, out.printed,
                             Return(PyDict("stations" :> st.out.value
                                           @@ "legend" :> lg.out.value)))

get_station_access(orig, legend, resp) ==
    IF Raised(check_station(orig)) THEN Rejected(check_station(orig))
    ELSE IF Raised(check_legend(legend)) THEN Rejected(check_legend(legend))
    ELSE LET out == call_api("stn", "stnaccess", "orig" :> orig @@ "l" :> legend, resp)
             st == Index(out, "stations")
         IN IF Raised(st.out) THEN st
            ELSE IF PyEq(legend, PyInt(1))
                 THEN LET lg == Index(Index(out, "message"), "legend")
                      IN IF Raised(lg.out) THEN lg
                         ELSE Eff(out.sent, out.printed,
                                  Return(PyDict("stations" :> st.out.value
                                                @@ "legend" :> lg.out.value)))
                 ELSE Eff(out.sent, out.printed, Return(PyDict("stations" :> st.out.value)))

get_station_info(orig, resp) ==
    IF Raised(check_station(orig)) THEN Rejected(check_station(orig))
    ELSE Index(call_api("stn", "stninfo", "orig" :> orig, resp), "stations")

get_stations(resp) == Index(call_api("stn", "stns", NoArgs, resp), "stations")

(***************************************************************************)
(* The inputs the model draws from.                                        *)
(***************************************************************************)
upper(s) == [i \in 1..Len(s) |-> upperChar(s[i])]

Strs(set) == {PyStr(s) : s \in set}
Ints(set) == {PyInt(n) : n \in set}

ApiKeys == {"MW9S-E7SL-26DU-VV8V"}

\* station arguments of the operations
OrigInputs ==
    Strs(stations_keys \cup {upper(s) : s \in stations_keys}
         \cup {all_lower, ALL_upper, <<"x","x","x","x">>})
DestInputs == Strs({StationTable[1], upper(StationTable[NStations]), <<"x","x","x","x">>})

\* arguments of check_station
StationInputs ==
    Strs(UNION {CaseVariants(s) : s \in stations_keys \cup {all_lower}}
         \cup {<<"x","x","x","x">>, <<>>, <<"a","l">>, <<"a","l","l","l">>, <<"a","s","h">>, <<"a","s","h","b","y">>, <<" ","a","l","l">>})
    \cup {NoneV}

PlatInputs == {NoneV, PyStr(<<"1">>)} \cup Ints(-1..MaxInt)
DirInputs == {NoneV} \cup Strs({<<"n">>, <<"s">>, <<>>, <<"n","s">>, <<"s","n">>, <<"e">>, <<"N">>})
RouteInputs == {PyStr(all_lower), PyStr(ALL_upper), PyStr(<<"1">>)} \cup Ints({0, 1, 12, 13})
SchedInputs == {NoneV, PyInt(0), PyInt(MaxInt)}
TimeInputs == Strs({<<"n","o","w">>, <<"t","o","d","a","y">>, <<"5",":","3","0","+","p","m">>, <<"1","7",":","0","5","+","A","M">>, <<"2","4",":","0","0","+","a","m">>, <<"5",":","6","0","+","p","m">>, <<"5",":","3","0","p","m">>, <<>>})
DateInputs == Strs({<<"t","o","d","a","y">>, <<"n","o","w">>, <<"0","2","/","2","9","/","2","0","2","4">>, <<"0","2","/","2","9","/","2","0","2","3">>, <<"1","3","/","0","1","/","2","0","2","4">>, <<"1","/"," ","1","/","2","0","2","4">>, <<"1","/","1","/","2","4">>, <<>>})
TripInputs == Ints(-1..MaxInt)
LegendInputs == {PyStr(<<"1">>)} \cup Ints(-1..2)
ScheduleTypeInputs == Strs({<<"W">>, <<"w">>, <<"s">>, <<"H">>, <<"x">>, <<>>, <<"w","s">>, <<"s","w">>})
EndpointInputs == {BART_ENDPOINTS[i] : i \in DOMAIN BART_ENDPOINTS}
                  \cup {"", "BSA", "bsa.aspx", "help"}
CmdInputs == {"help", "ver"}

\* train identifiers: a four-character part, a two-character part and a rest
TrainStationParts ==
    stations_keys \cup {upper(s) : s \in stations_keys} \cup {<<"X","X","X","X">>}
TrainRouteParts == {<<"0","7">>, <<"0","x">>, <<" ","7">>, <<"-","7">>, <<"x","7">>}
TrainIdParts == {<<"4","6">>, <<>>, <<"4","x">>, <<"4">>, <<"0","4","6"," ">>}
TrainInputs ==
    Strs({s \o r \o i : s \in TrainStationParts, r \in TrainRouteParts, i \in TrainIdParts}
         \cup {Slice(s, 0, 3) : s \in stations_keys} \cup stations_keys
         \cup {s \o <<"0">> : s \in stations_keys})

\* the identifiers the load-factor operation is tried on
Ld1Inputs == Strs({s \o <<"0","7","4","6">> : s \in TrainStationParts})
LdOptInputs == {NoneV, PyStr(<<>>), PyStr(StationTable[NStations] \o <<"0","1","5","9">>),
                PyStr(<<"X","X","X","X">> \o <<"0","1","5","9">>)}

(***************************************************************************)
(* The responses of the service: a status and a body.  A well-formed body  *)
(* has one root element, decoded to a mapping of its children.             *)
(***************************************************************************)
Payload(k) == [t |-> "data", v |-> k]
DataKeys == {"bsa", "traincount", "stations"}
Absent == [t |-> "absent"]

Messages ==
    {Absent, NoneV, PyStr(<<"n","o","t","e">>),
     PyDict("error" :> NoneV),
     PyDict("error" :> PyStr(<<"n","o","t","e">>)),
     PyDict("error" :> PyStr(<<"n","o","t","e">>) @@ "legend" :> Payload("legend")),
     PyDict("legend" :> Payload("legend")),
     PyDict("help" :> PyStr(<<"c",":"," ","a",","," ","b">>)),
     PyDict("help" :> PyStr(<<"n","o","t","e">>)),
     PyDict("help" :> NoneV)}

MkRoot(hasUri, msg, data) ==
    [k \in (IF hasUri THEN {"uri"} ELSE {})
           \cup (IF msg.t = "absent" THEN {} ELSE {"message"}) \cup data |->
        IF k = "uri" THEN PyStr(<<"u">>)
        ELSE IF k = "message" THEN msg ELSE Payload(k)]

Roots == {MkRoot(u, m, d) : u \in BOOLEAN, m \in Messages, d \in {{}, DataKeys}}

BadXml == [wf |-> FALSE, tag |-> "", root |-> <<>>]
Bodies == {BadXml}
          \cup {[wf |-> TRUE, tag |-> "html", root |-> r] : r \in {MkRoot(TRUE, NoneV, DataKeys)}}
          \cup {[wf |-> TRUE, tag |-> "root", root |-> r] : r \in Roots}
ErrorBodies == {BadXml,
                [wf |-> TRUE, tag |-> "root",
                 root |-> MkRoot(TRUE, PyDict("error" :> PyStr(<<"n","o","t","e">>)), DataKeys)]}

OtherStatuses == {300, 304, 404, 500}
Responses == {[status |-> 200, body |-> b] : b \in Bodies}
             \cup {[status |-> s, body |-> b] : s \in OtherStatuses, b \in ErrorBodies}

NoResponse == [status |-> 0, body |-> BadXml]
NoCall == [op |-> "", args |-> <<>>, resp |-> NoResponse]
NoOutcome == [kind |-> "none"]

(***************************************************************************)
(* The client: created with an API key, then called by its user, one       *)
(* method at a time.                                                       *)
(***************************************************************************)
Init ==
    /\ api_key \in ApiKeys
    /\ pc = "idle"
    /\ call = NoCall
    /\ sent = <<>>
    /\ printed = <<>>
    /\ outcome = NoOutcome

\* the user calls method op with args; the service answers resp to a
\* request; the method does r
Invoke(op, args, resp, r) ==
    /\ pc' = "done"
    /\ call' = [op |-> op, args |-> args,
                resp |-> IF r.sent = <<>> THEN NoResponse ELSE resp]
    /\ sent' = r.sent
    /\ printed' = r.printed
    /\ outcome' = r.out
    /\ UNCHANGED api_key

\* a validator called on its own returns None or raises
Checked(v) == Eff(<<>>, <<>>, IF Raised(v) THEN v ELSE Return(NoneV))

(***************************************************************************)
(* One action per method.                                                  *)
(***************************************************************************)
Call_get_api_endpoint ==
    /\ pc = "idle"
    /\ \E endpoint \in EndpointInputs :
           Invoke("_get_api_endpoint", [endpoint |-> endpoint], NoResponse,
                  Eff(<<>>, <<>>, _get_api_endpoint(endpoint)))

Call_call_api ==
    /\ pc = "idle"
    /\ \E endpoint \in EndpointInputs, cmd \in CmdInputs, resp \in Responses :
           Invoke("call_api", [endpoint |-> endpoint, cmd |-> cmd], resp,
                  call_api(endpoint, cmd, NoArgs, resp))

Call_check_station ==
    /\ pc = "idle"
    /\ \E orig \in StationInputs :
           Invoke("check_station", [orig |-> orig], NoResponse, Checked(check_station(orig)))

Call_check_platform ==
    /\ pc = "idle"
    /\ \E platform \in PlatInputs :
           Invoke("check_platform", [platform |-> platform], NoResponse,
                  Checked(check_platform(platform)))

Call_check_direction ==
    /\ pc = "idle"
    /\ \E direction \in DirInputs :
           Invoke("check_direction", [direction |-> direction], NoResponse,
                  Checked(check_direction(direction)))

Call_check_route ==
    /\ pc = "idle"
    /\ \E route \in RouteInputs :
           Invoke("check_route", [route |-> route], NoResponse, Checked(check_route(route)))

Call_check_time ==
    /\ pc = "idle"
    /\ \E time \in TimeInputs \cup {NoneV} :
           Invoke("check_time", [time |-> time], NoResponse, Checked(check_time(time)))

Call_check_date ==
    /\ pc = "idle"
    /\ \E date \in DateInputs \cup {NoneV} :
           Invoke("check_date", [date |-> date], NoResponse, Checked(check_date(date)))

Call_check_trips ==
    /\ pc = "idle"
    /\ \E num_trips \in TripInputs :
           Invoke("check_trips", [num_trips |-> num_trips], NoResponse,
                  Checked(check_trips(num_trips)))

Call_check_legend ==
    /\ pc = "idle"
    /\ \E legend \in LegendInputs :
           Invoke("check_legend", [legend |-> legend], NoResponse, Checked(check_legend(legend)))

Call_check_load ==
    /\ pc = "idle"
    /\ \E train \in TrainInputs \cup {NoneV} :
           Invoke("check_load", [train |-> train], NoResponse, Checked(check_load(train)))

Call_check_schedule_type ==
    /\ pc = "idle"
    /\ \E st \in ScheduleTypeInputs :
           Invoke("check_schedule_type", [st |-> st], NoResponse,
                  Checked(check_schedule_type(st)))

Call_get_api_commands ==
    /\ pc = "idle"
    /\ \E endpoint \in EndpointInputs, resp \in Responses :
           Invoke("get_api_commands", [endpoint |-> endpoint], resp,
                  get_api_commands(endpoint, resp))

Call_get_api_version ==
    /\ pc = "idle"
    /\ \E endpoint \in EndpointInputs, resp \in Responses :
           Invoke("get_api_version", [endpoint |-> endpoint], resp,
                  get_api_version(endpoint, resp))

Call_get_current_advisory ==
    /\ pc = "idle"
    /\ \E orig \in OrigInputs, resp \in Responses :
           Invoke("get_current_advisory", [orig |-> orig], resp,
                  get_current_advisory(orig, resp))

Call_get_number_of_trains ==
    /\ pc = "idle"
    /\ \E resp \in Responses :
           Invoke("get_number_of_trains", <<>>, resp, get_number_of_trains(resp))

Call_get_elevator_status ==
    /\ pc = "idle"
    /\ \E resp \in Responses :
           Invoke("get_elevator_status", <<>>, resp, get_elevator_status(resp))

Call_get_estimated_departure ==
    /\ pc = "idle"
    /\ \E orig \in OrigInputs, plat \in PlatInputs, dir \in DirInputs, resp \in Responses :
           Invoke("get_estimated_departure", [orig |-> orig, plat |-> plat, dir |-> dir], resp,
                  get_estimated_departure(orig, plat, dir, resp))

Call_get_route_information ==
    /\ pc = "idle"
    /\ \E route \in RouteInputs, sched \in SchedInputs, date \in DateInputs,
          resp \in Responses :
           Invoke("get_route_information", [route |-> route, sched |-> sched, date |-> date],
                  resp, get_route_information(route, sched, date, resp))

Call_get_route_current_information ==
    /\ pc = "idle"
    /\ \E sched \in SchedInputs, date \in DateInputs, resp \in Responses :
           Invoke("get_route_current_information", [sched |-> sched, date |-> date], resp,
                  get_route_current_information(sched, date, resp))

\* the arguments the two trip plans are tried on
TripPlanArgs ==
    [orig : Strs({StationTable[1], ALL_upper, <<"x","x","x","x">>}),
     dest : Strs({upper(StationTable[NStations]), <<"x","x","x","x">>}),
     time : Strs({now, <<"5",":","3","0","+","p","m">>, <<"5",":","3","0","p","m">>}),
     date : Strs({today, <<"0","2","/","2","9","/","2","0","2","4">>, <<"1","3","/","0","1","/","2","0","2","4">>}),
     trips_before : Ints({0, MaxInt}),
     trips_after : Ints({-1, 4}),
     legend : Ints({1, 2})]

Call_get_schedule_by_arrival ==
    /\ pc = "idle"
    /\ \E a \in TripPlanArgs, resp \in Responses :
           Invoke("get_schedule_by_arrival", a, resp,
                  get_schedule_by_arrival(a.orig, a.dest, a.time, a.date,
                                          a.trips_before, a.trips_after, a.legend, resp))

Call_get_schedule_by_departure ==
    /\ pc = "idle"
    /\ \E a \in TripPlanArgs, resp \in Responses :
           Invoke("get_schedule_by_departure", a, resp,
                  get_schedule_by_departure(a.orig, a.dest, a.time, a.date,
                                            a.trips_before, a.trips_after, a.legend, resp))

Call_get_schedule_fare ==
    /\ pc = "idle"
    /\ \E orig \in OrigInputs, dest \in DestInputs, date \in DateInputs,
          sched \in SchedInputs, resp \in Responses :
           Invoke("get_schedule_fare",
                  [orig |-> orig, dest |-> dest, date |-> date, sched |-> sched], resp,
                  get_schedule_fare(orig, dest, date, sched, resp))

Call_get_schedule_for_holiday ==
    /\ pc = "idle"
    /\ \E resp \in Responses :
           Invoke("get_schedule_for_holiday", <<>>, resp, get_schedule_for_holiday(resp))

Call_get_schedule_load_factor ==
    /\ pc = "idle"
    /\ \E ld1 \in Ld1Inputs, ld2 \in LdOptInputs, ld3 \in LdOptInputs,
          st \in ScheduleTypeInputs, resp \in Responses :
           Invoke("get_schedule_load_factor",
                  [ld1 |-> ld1, ld2 |-> ld2, ld3 |-> ld3, st |-> st], resp,
                  get_schedule_load_factor(ld1, ld2, ld3, st, resp))

Call_get_schedule_by_route ==
    /\ pc = "idle"
    /\ \E resp \in Responses :
           Invoke("get_schedule_by_route", <<>>, resp, get_schedule_by_route(resp))

Call_get_schedule ==
    /\ pc = "idle"
    /\ \E resp \in Responses :
           Invoke("get_schedule", <<>>, resp, get_schedule(resp))

Call_get_schedule_special ==
    /\ pc = "idle"
    /\ \E resp \in Responses :
           Invoke("get_schedule_special", <<>>, resp, get_schedule_special(resp))

Call_get_schedule_station ==
    /\ pc = "idle"
    /\ \E resp \in Responses :
           Invoke("get_schedule_station", <<>>, resp, get_schedule_station(resp))

Call_get_station_access ==
    /\ pc = "idle"
    /\ \E orig \in OrigInputs, legend \in LegendInputs, resp \in Responses :
           Invoke("get_station_access", [orig |-> orig, legend |-> legend], resp,
                  get_station_access(orig, legend, resp))

Call_get_station_info ==
    /\ pc = "idle"
    /\ \E orig \in OrigInputs, resp \in Responses :
           Invoke("get_station_info", [orig |-> orig], resp, get_station_info(orig, resp))

Call_get_stations ==
    /\ pc = "idle"
    /\ \E resp \in Responses :
           Invoke("get_stations", <<>>, resp, get_stations(resp))

\* the user has the outcome of the call and may call again
Done ==
    /\ pc = "done"
    /\ pc' = "idle"
    /\ call' = NoCall
    /\ sent' = <<>>
    /\ printed' = <<>>
    /\ outcome' = NoOutcome
    /\ UNCHANGED api_key

Next ==
    \/ Call_get_api_endpoint
    \/ Call_call_api
    \/ Call_check_station
    \/ Call_check_platform
    \/ Call_check_direction
    \/ Call_check_route
    \/ Call_check_time
    \/ Call_check_date
    \/ Call_check_trips
    \/ Call_check_legend
    \/ Call_check_load
    \/ Call_check_schedule_type
    \/ Call_get_api_commands
    \/ Call_get_api_version
    \/ Call_get_current_advisory
    \/ Call_get_number_of_trains
    \/ Call_get_elevator_status
    \/ Call_get_estimated_departure
    \/ Call_get_route_information
    \/ Call_get_route_current_information
    \/ Call_get_schedule_by_arrival
    \/ Call_get_schedule_by_departure
    \/ Call_get_schedule_fare
    \/ Call_get_schedule_for_holiday
    \/ Call_get_schedule_load_factor
    \/ Call_get_schedule_by_route
    \/ Call_get_schedule
    \/ Call_get_schedule_special
    \/ Call_get_schedule_station
    \/ Call_get_station_access
    \/ Call_get_station_info
    \/ Call_get_stations
    \/ Done

Spec == Init /\ [][Next]_vars

(***************************************************************************)
(* Vocabulary of the properties.                                           *)
(***************************************************************************)
Called(op) == pc = "done" /\ call.op = op
Returned == outcome.kind = "return"
RaisedError == outcome.kind = "raise"

EndpointNames == {"bsa", "etd", "route", "sched", "stn"}

\* the public operations: one per command of the service
PublicOps ==
    {"get_api_commands", "get_api_version", "get_current_advisory",
     "get_number_of_trains", "get_elevator_status", "get_estimated_departure",
     "get_route_information", "get_route_current_information",
     "get_schedule_by_arrival", "get_schedule_by_departure", "get_schedule_fare",
     "get_schedule_for_holiday", "get_schedule_load_factor", "get_schedule_by_route",
     "get_schedule", "get_schedule_special", "get_schedule_station",
     "get_station_access", "get_station_info", "get_stations"}

\* the operations that return what call_api returns, unchanged
DirectOps ==
    {"call_api", "get_api_version", "get_estimated_departure", "get_route_information",
     "get_route_current_information", "get_schedule_by_arrival",
     "get_schedule_by_departure", "get_schedule_fare", "get_schedule_for_holiday",
     "get_schedule_by_route", "get_schedule", "get_schedule_special",
     "get_schedule_station"}

\* the validator of the argument named a, applied to v
ValidatorOf(a, v) ==
    CASE a \in {"orig", "dest"} -> check_station(v)
      [] a = "plat" -> check_platform(v)
      [] a = "dir" -> check_direction(v)
      [] a = "route" -> check_route(v)
      [] a = "date" -> check_date(v)
      [] a = "time" -> check_time(v)
      [] a \in {"trips_before", "trips_after"} -> check_trips(v)
      [] a = "legend" -> check_legend(v)
      [] a \in {"ld1", "ld2", "ld3"} -> check_load(v)
      [] a = "st" -> check_schedule_type(v)
      [] OTHER -> Ok

\* the name an argument has in the request
WireName(a) ==
    CASE a = "trips_before" -> "b"
      [] a = "trips_after" -> "a"
      [] a = "legend" -> "l"
      [] OTHER -> a

HasValidator(a) ==
    a \in {"orig", "dest", "plat", "dir", "route", "date", "time", "trips_before",
           "trips_after", "legend", "ld1", "ld2", "ld3", "st"}

\* the caller supplied the argument a and it fails its validator
FailsValidator(a) ==
    HasValidator(a) /\ ~IsNone(call.args[a]) /\ Raised(ValidatorOf(a, call.args[a]))

\* every argument of the call is acceptable: an endpoint is a known one, an
\* optional argument is left out or passes its validator
ArgsAllValid ==
    \A a \in DOMAIN call.args :
        IF a = "endpoint" THEN call.args[a] \in EndpointNames ELSE ~FailsValidator(a)

Params(i) == sent[i].params

\* the response was 200 with a well-formed document under a root element
DecodedRoot ==
    /\ sent # <<>>
    /\ call.resp.status = 200
    /\ call.resp.body.wf
    /\ call.resp.body.tag = "root"

Root == call.resp.body.root

ValidScheduleType(st) ==
    IsStr(st) /\ Len(st.v) = 1 /\ lower(st.v)[1] \in {"w", "s", "h"}

C2_LoadFactorRequest ==
    (/\ Called("get_schedule_load_factor")
     /\ ~Raised(check_load(call.args.ld1))
     /\ ValidScheduleType(call.args.st))
    => (/\ (IsNone(call.args.ld2) /\ IsNone(call.args.ld3))
            => (/\ Len(sent) = 1
                /\ Params(1)["cmd"] = "load"
                /\ DOMAIN Params(1) \cap {"ld1", "ld2", "ld3"} = {"ld1"}
                /\ Params(1)["ld1"] = call.args.ld1)
        /\ (/\ Truthy(call.args.ld2) /\ ~Raised(check_load(call.args.ld2))
            /\ Truthy(call.args.ld3) /\ ~Raised(check_load(call.args.ld3)))
            => (/\ Len(sent) = 1
                /\ Params(1)["cmd"] = "load"
                /\ {"ld1", "ld2", "ld3"} \subseteq DOMAIN Params(1)
                /\ Params(1)["ld1"] = call.args.ld1
                /\ Params(1)["ld2"] = call.args.ld2
                /\ Params(1)["ld3"] = call.args.ld3))

(***************************************************************************)
(* C3: in every public operation, a parameter that has a validator is in   *)
(* an outgoing request only if it passed that validator, and if any        *)
(* supplied argument fails its validator the call raises and no request    *)
(* has been issued.                                                        *)
(***************************************************************************)
C3_ValidatedBeforeWire ==
    (pc = "done" /\ call.op \in PublicOps)
    => \A a \in DOMAIN call.args :
          /\ (HasValidator(a) /\ \E i \in DOMAIN sent : WireName(a) \in DOMAIN Params(i))
             => ~Raised(ValidatorOf(a, call.args[a]))
          /\ FailsValidator(a) => (RaisedError /\ sent = <<>>)

(***************************************************************************)
(* C4: when the status is 200 and the decoded root carries, beside the     *)
(* wrapper key the service always sends, a non-empty error note under the  *)
(* message key, call_api does not raise: it prints the note and returns    *)
(* the decoded mapping with every data entry as it was decoded.            *)
(***************************************************************************)
HasErrorNote ==
    /\ DecodedRoot
    /\ {"uri", "message"} \subseteq DOMAIN Root
    /\ IsDict(Root["message"])
    /\ "error" \in DOMAIN Root["message"].v
    /\ Truthy(Root["message"].v["error"])

C4_ErrorNoteIsNotFatal ==
    (pc = "done" /\ call.op \in DirectOps /\ HasErrorNote)
    => (/\ Returned
        /\ printed = <<Root["message"].v["error"]>>
        /\ IsDict(outcome.value)
        /\ \A k \in DOMAIN Root \ {"uri"} :
              k \in DOMAIN outcome.value.v /\ outcome.value.v[k] = Root[k])

C4_Witness ==
    /\ Called("call_api")
    /\ HasErrorNote
    /\ "stations" \in DOMAIN Root
    /\ Returned
    /\ Len(printed) = 1
    /\ outcome.value.v["stations"] = Payload("stations")

(***************************************************************************)
(* C5: for every response whose status is not 200, call_api raises a       *)
(* transport error: the body is not decoded and nothing is returned.       *)
(***************************************************************************)
C5_Non200Raises ==
    (pc = "done" /\ sent # <<>> /\ call.resp.status # 200)
    => (RaisedError /\ outcome.exc = "HTTPError")

(***************************************************************************)
(* C6: whenever call_api returns, the mapping it returns does not have the *)
(* key 'uri' and has every other top-level key of the decoded root, with   *)
(* the value decoded for it.                                               *)
(***************************************************************************)
C6_WrapperRemoved ==
    (pc = "done" /\ call.op \in DirectOps /\ Returned /\ sent # <<>>)
    => (/\ call.resp.body.wf
        /\ IsDict(outcome.value)
        /\ "uri" \notin DOMAIN outcome.value.v
        /\ DOMAIN outcome.value.v = DOMAIN Root \ {"uri"}
        /\ \A k \in DOMAIN outcome.value.v : outcome.value.v[k] = Root[k])

C6_Witness ==
    /\ Called("call_api")
    /\ Returned
    /\ "uri" \in DOMAIN Root
    /\ DataKeys \subseteq DOMAIN outcome.value.v
    /\ "uri" \notin DOMAIN outcome.value.v

(***************************************************************************)
(* C7: check_load splits a train identifier into its first 4 characters    *)
(* (station), the next 2 (route) and the rest (train id), and accepts it   *)
(* exactly when the station part is a known station code, in whatever      *)
(* letter case it is written ("ASHB0746" is accepted), and the route and   *)
(* train id parts each parse as integers.                                  *)
(***************************************************************************)
C7_LoadAcceptsKnownStation ==
    (Called("check_load") /\ IsStr(call.args.train))
    => (Returned <=>
          /\ \E s \in stations_keys : Slice(call.args.train.v, 0, 4) \in CaseVariants(s)
          /\ IntParses(Slice(call.args.train.v, 4, 6))
          /\ IntParses(SliceFrom(call.args.train.v, 6)))

(***************************************************************************)
(* C8: every invocation of a public operation whose arguments all pass     *)
(* validation issues exactly one HTTP GET; none completes with no request  *)
(* or with more than one.                                                  *)
(***************************************************************************)
C8_ExactlyOneRequest ==
    (pc = "done" /\ call.op \in PublicOps /\ ArgsAllValid) => Len(sent) = 1

(***************************************************************************)
(* C9, as the specification states it: check_station accepts every code of *)
(* the known station set in any letter case, and rejects every other       *)
(* string except the literal "all".                                        *)
(***************************************************************************)
C9_OnlyLiteralAll ==
    (Called("check_station") /\ IsStr(call.args.orig))
    => (Returned <=>
          \/ \E s \in stations_keys : call.args.orig.v \in CaseVariants(s)
          \/ call.args.orig.v = all_lower)

(***************************************************************************)
(* C9, amended: check_station accepts every code of the known station set  *)
(* in any letter case and the word "all" in any letter case ("ALL",        *)
(* "All"), and rejects every other string.                                 *)
(***************************************************************************)
C9_StationAnyCase ==
    (Called("check_station") /\ IsStr(call.args.orig))
    => (Returned <=>
          \E s \in stations_keys \cup {all_lower} : call.args.orig.v \in CaseVariants(s))

C9_Witness ==
    /\ Called("check_station")
    /\ IsStr(call.args.orig)
    /\ call.args.orig.v \in CaseVariants(StationTable[NStations])
    /\ call.args.orig.v # StationTable[NStations]
    /\ call.args.orig.v # upper(StationTable[NStations])
    /\ Returned

(***************************************************************************)
(* C10: for each name in {bsa, etd, route, sched, stn} the resolved URL is *)
(* the base URL http://api.bart.gov/api/ joined with '<name>.aspx', and it *)
(* is the URL of the request call_api issues; for every other name,        *)
(* _get_api_endpoint, call_api and get_api_commands raise the              *)
(* unknown-endpoint error naming it, and no request is issued.             *)
(***************************************************************************)
EndpointUrl(name) ==
    [scheme |-> "http", netloc |-> "api.bart.gov", path |-> <<"api", name \o ".aspx">>]

C10_EndpointResolution ==
    (pc = "done" /\ call.op \in {"_get_api_endpoint", "call_api", "get_api_commands"})
    => IF call.args.endpoint \in EndpointNames
       THEN /\ call.op = "_get_api_endpoint"
               => (Returned /\ outcome.value = EndpointUrl(call.args.endpoint))
            /\ call.op # "_get_api_endpoint"
               => (Len(sent) = 1 /\ sent[1].uri = EndpointUrl(call.args.endpoint))
       ELSE /\ RaisedError
            /\ outcome.exc = "Exception"
            /\ outcome.fmt = "Endpoint '{}' does not exist"
            /\ outcome.arg = call.args.endpoint
            /\ sent = <<>>

C10_Witness ==
    /\ Called("call_api")
    /\ call.args.endpoint = "BSA"
    /\ RaisedError
    /\ sent = <<>>

C12_AllStationsIgnoresSelectors ==
    (/\ Called("get_estimated_departure")
     /\ IsStr(call.args.orig)
     /\ call.args.orig.v \in CaseVariants(all_lower))
    => \A i \in DOMAIN sent : DOMAIN Params(i) \cap {"plat", "dir"} = {}

(***************************************************************************)
(* C13: check_direction accepts exactly the one-character strings 'n' and  *)
(* 's' and rejects every other string, the empty string and 'ns' included. *)
(***************************************************************************)
C13_DirectionExactlyNS ==
    (Called("check_direction") /\ IsStr(call.args.direction))
    => (Returned <=> call.args.direction.v \in {<<"n">>, <<"s">>})

(***************************************************************************)
(* C14: get_schedule_load_factor given a valid first and a valid third     *)
(* train identifier and no second one either raises before any request is  *)
(* issued, or issues one request carrying the two identifiers as ld1 and   *)
(* ld2; it never issues a request without the third identifier and never   *)
(* one with ld3 but no ld2.                                                *)
(***************************************************************************)
ThirdWithoutSecond ==
    /\ Called("get_schedule_load_factor")
    /\ ~Raised(check_load(call.args.ld1))
    /\ ~Truthy(call.args.ld2)
    /\ Truthy(call.args.ld3)
    /\ ~Raised(check_load(call.args.ld3))

====
